---------------------------- MODULE Spec2Model ----------------------------
(***************************************************************************)
(* QR Date (qrdate/qrdate): signing and verification of timestamps.        *)
(*                                                                         *)
(* Text is a sequence of one-character strings, binary data a sequence of  *)
(* bytes (0..255).  JavaScript values are records with a "type" field.     *)
(* node:crypto is modelled as an ideal deterministic signature scheme and  *)
(* an injective hash; everything the repository's own code does (message   *)
(* construction, base64url text, key normalisation, argument checks, URL    *)
(* formatting) is computed as the code computes it.                        *)
(***************************************************************************)
EXTENDS Integers, Sequences, FiniteSets, TLC

(***************************************************************************)
(* Bounds of the model.                                                    *)
(***************************************************************************)
\* Key pairs; the clock runs from MinClock to MaxClock (milliseconds).
NumKeys == 2
MinClock == 9
MaxClock == 10
\* Bytes of a signature, of a raw key and of a digest (64, 32 and 32 in
\* ed25519 and SHA-256; scaled down, the remainders modulo 3 kept).
SignatureLength == 16
KeyLength == 5
DigestLength == 8

(***************************************************************************)
(* Characters and text.                                                    *)
(***************************************************************************)
Upper ==
    <<"A", "B", "C", "D", "E", "F", "G", "H", "I", "J", "K", "L", "M",
      "N", "O", "P", "Q", "R", "S", "T", "U", "V", "W", "X", "Y", "Z">>
Lower ==
    <<"a", "b", "c", "d", "e", "f", "g", "h", "i", "j", "k", "l", "m",
      "n", "o", "p", "q", "r", "s", "t", "u", "v", "w", "x", "y", "z">>
Digits ==
    <<"0", "1", "2", "3", "4", "5", "6", "7", "8", "9">>

\* The 64 digits of base64 ('+', '/') and of base64url ('-', '_').
Base64Alphabet ==
    Upper \o Lower \o Digits \o <<"+", "/">>
Base64UrlAlphabet ==
    Upper \o Lower \o Digits \o <<"-", "_">>

\* Every character the model writes; a character's code is its place here.
CharTable ==
    Base64Alphabet \o <<"-", "_", "=", "&", "?", ":", ".", "#", " ", "\n",
                        "[", "]", "!">>

Range(s) ==
    {s[i] : i \in DOMAIN s}

IndexIn(c, table) ==
    CHOOSE i \in DOMAIN table : table[i] = c

CharCode ==
    [c \in Range(CharTable) |-> IndexIn(c, CharTable)]

StartsWith(s, prefix) ==
    /\ Len(s) >= Len(prefix)
    /\ SubSeq(s, 1, Len(prefix)) = prefix

EndsWith(s, suffix) ==
    /\ Len(s) >= Len(suffix)
    /\ SubSeq(s, Len(s) - Len(suffix) + 1, Len(s)) = suffix

\* Number.prototype.toString(): the decimal digits of a non-negative integer.
RECURSIVE NumToString(_)
NumToString(n) ==
    IF n < 10 THEN <<Digits[n + 1]>>
    ELSE NumToString(n \div 10) \o <<Digits[(n % 10) + 1]>>

(***************************************************************************)
(* Buffer.toString('base64') / ('base64url') and Buffer.from(s, 'base64url').*)
(***************************************************************************)
\* The value (0..63) of a base64 digit, -1 for any other character.  The
\* decoder reads both alphabets whatever encoding is named.
Base64Value ==
    [c \in Range(CharTable) |->
        IF c \in Range(Base64Alphabet) THEN IndexIn(c, Base64Alphabet) - 1
        ELSE IF c = "-" THEN 62
        ELSE IF c = "_" THEN 63
        ELSE -1]

\* The digits of the base64 of bytes: each group of three bytes gives four
\* digits, a last group of one (two) bytes gives two (three).
Base64Digits(bytes) ==
    LET n == Len(bytes)
        at(i) == IF i <= n THEN bytes[i] ELSE 0
    IN  [j \in 1 .. ((4 * n + 2) \div 3) |->
            LET b == 3 * ((j - 1) \div 4)
                r == (j - 1) % 4
            IN  CASE r = 0 -> at(b + 1) \div 4
                  [] r = 1 -> (at(b + 1) % 4) * 16 + (at(b + 2) \div 16)
                  [] r = 2 -> (at(b + 2) % 16) * 4 + (at(b + 3) \div 64)
                  [] r = 3 -> at(b + 3) % 64]

EncodeBase64With(bytes, alphabet, pad) ==
    LET d == Base64Digits(bytes)
    IN  [j \in 1 .. Len(d) |-> alphabet[d[j] + 1]]
        \o [j \in 1 .. ((3 - (Len(bytes) % 3)) % 3) |-> pad]

\* buffer.toString('base64'): padded, '+' and '/'.
ToBase64(bytes) ==
    EncodeBase64With(bytes, Base64Alphabet, "=")

\* buffer.toString('base64url'): unpadded, '-' and '_'.
ToBase64Url(bytes) ==
    LET d == Base64Digits(bytes)
    IN  [j \in 1 .. Len(d) |-> Base64UrlAlphabet[d[j] + 1]]

\* The digits of a text, characters that are no base64 digit skipped.
Base64DigitsOf(s) ==
    SelectSeq([i \in DOMAIN s |-> Base64Value[s[i]]], LAMBDA v : v >= 0)

\* Four digits give three bytes; two (three) digits left at the end give
\* one (two) bytes and the bits left over are dropped; one digit gives none.
DecodeDigits(d) ==
    [j \in 1 .. ((Len(d) * 3) \div 4) |->
        LET b == 4 * ((j - 1) \div 3)
            r == (j - 1) % 3
        IN  CASE r = 0 -> d[b + 1] * 4 + (d[b + 2] \div 16)
              [] r = 1 -> (d[b + 2] % 16) * 16 + (d[b + 3] \div 4)
              [] r = 2 -> (d[b + 3] % 4) * 64 + d[b + 4]]

\* Buffer.from(s, 'base64url'): lenient; never raises.  Bits left over in
\* the last digit are dropped.
FromBase64Url(s) ==
    DecodeDigits(Base64DigitsOf(s))

(***************************************************************************)
(* JavaScript values: undefined, numbers, strings, Buffers (of text),      *)
(* KeyObjects, plain objects, functions; "error" stands for a raised       *)
(* exception where a value was expected.                                   *)
(***************************************************************************)
Value(type, num, text, kind, id) ==
    [type |-> type, num |-> num, text |-> text, kind |-> kind, id |-> id]

Undefined ==
    Value("undefined", 0, <<>>, "none", 0)
Num(n) ==
    Value("number", n, <<>>, "none", 0)
Str(t) ==
    Value("string", 0, t, "none", 0)
Buf(t) ==
    Value("buffer", 0, t, "none", 0)
KeyObj(kind, k) ==
    Value("keyobject", 0, <<>>, kind, k)
PlainObject ==
    Value("object", 0, <<>>, "none", 0)
Function ==
    Value("function", 0, <<>>, "none", 0)
EchoFunction ==
    Value("function", 0, <<>>, "none", 1)
Raised ==
    Value("error", 0, <<>>, "none", 0)

\* !v
Falsy(v) ==
    \/ v.type = "undefined"
    \/ v.type = "number" /\ v.num = 0
    \/ v.type = "string" /\ v.text = <<>>

\* `${v}` and v.toString()
ToText(v) ==
    CASE v.type = "number" -> NumToString(v.num)
      [] v.type = "string" -> v.text
      [] v.type = "buffer" -> v.text
      [] v.type = "undefined" ->
            <<"u", "n", "d", "e", "f", "i", "n", "e", "d">>
      [] OTHER ->
            <<"[", "o", "b", "j", "e", "c", "t", " ",
              "O", "b", "j", "e", "c", "t", "]">>

(***************************************************************************)
(* node:crypto, ed25519 keys.  Key pair k (1..NumKeys) has a seed and a     *)
(* public point of KeyLength bytes; PKCS#8 and SPKI put a fixed prefix      *)
(* before                                                                  *)
(* them; PEM is a header, the base64 of the DER and a footer.               *)
(***************************************************************************)
KeyIds ==
    1 .. NumKeys

PublicPoint(k) ==
    [i \in 1 .. KeyLength |-> (k * 83 + i * 59 + 53) % 256]

PrivateSeed(k) ==
    [i \in 1 .. KeyLength |-> (k * 101 + i * 47 + 6) % 256]

SpkiDer(k) ==
    <<48, 42, 48, 5, 6, 3, 43, 101, 112, 3, 33, 0>> \o PublicPoint(k)

Pkcs8Der(k) ==
    <<48, 46, 2, 1, 0, 48, 5, 6, 3, 43, 101, 112, 4, 34, 4, 32>>
    \o PrivateSeed(k)

PublicHeader ==
    <<"-", "-", "-", "-", "-", "B", "E", "G", "I", "N", " ", "P", "U", "B",
      "L", "I", "C", " ", "K", "E", "Y", "-", "-", "-", "-", "-">>
PublicFooter ==
    <<"-", "-", "-", "-", "-", "E", "N", "D", " ", "P", "U", "B", "L", "I",
      "C", " ", "K", "E", "Y", "-", "-", "-", "-", "-">>
PrivateHeader ==
    <<"-", "-", "-", "-", "-", "B", "E", "G", "I", "N", " ", "P", "R", "I",
      "V", "A", "T", "E", " ", "K", "E", "Y", "-", "-", "-", "-", "-">>
PrivateFooter ==
    <<"-", "-", "-", "-", "-", "E", "N", "D", " ", "P", "R", "I", "V", "A",
      "T", "E", " ", "K", "E", "Y", "-", "-", "-", "-", "-">>

\* The PEM text node exports (generateKeys): with a final newline.
PublicPem(k) ==
    PublicHeader \o <<"\n">> \o ToBase64(SpkiDer(k)) \o <<"\n">>
    \o PublicFooter \o <<"\n">>
PrivatePem(k) ==
    PrivateHeader \o <<"\n">> \o ToBase64(Pkcs8Der(k)) \o <<"\n">>
    \o PrivateFooter \o <<"\n">>

\* The DER inside a PEM text, <<>> when the text is no such PEM: the header,
\* a newline, one line of canonical base64, a newline, the footer, and
\* possibly a last newline.
CanonicalDer(body, der) ==
    IF ToBase64(der) = body THEN der ELSE <<>>

PemBodyDer(t, h, f) ==
    IF StartsWith(t, h) /\ EndsWith(t, f) /\ Len(t) > Len(h) + Len(f)
    THEN CanonicalDer(SubSeq(t, Len(h) + 1, Len(t) - Len(f)),
                      FromBase64Url(SubSeq(t, Len(h) + 1, Len(t) - Len(f))))
    ELSE <<>>

PemDer(text, header, footer) ==
    PemBodyDer(IF EndsWith(text, <<"\n">>)
               THEN SubSeq(text, 1, Len(text) - 1) ELSE text,
               header \o <<"\n">>, <<"\n">> \o footer)

\* The key pair whose public (private) key a DER holds, 0 for none.
SpkiKeyId(der) ==
    IF der # <<>> /\ \E k \in KeyIds : SpkiDer(k) = der
    THEN CHOOSE k \in KeyIds : SpkiDer(k) = der ELSE 0

Pkcs8KeyId(der) ==
    IF der # <<>> /\ \E k \in KeyIds : Pkcs8Der(k) = der
    THEN CHOOSE k \in KeyIds : Pkcs8Der(k) = der ELSE 0

\* The key pair whose public (private) key a PEM text holds, 0 for none.
PublicIdOfPem(text) ==
    SpkiKeyId(PemDer(text, PublicHeader, PublicFooter))

PrivateIdOfPem(text) ==
    Pkcs8KeyId(PemDer(text, PrivateHeader, PrivateFooter))

\* The KeyObject of key pair k, Raised for no pair.
KeyObjectOrRaised(kind, k) ==
    IF k # 0 THEN KeyObj(kind, k) ELSE Raised

\* A createPrivateKey that reads any text it cannot parse as the first
\* pair's key.
createPrivateKeyLenient(key) ==
    IF key.type \in {"string", "buffer"}
    THEN KeyObj("private",
                IF PrivateIdOfPem(key.text) # 0 THEN PrivateIdOfPem(key.text)
                ELSE 1)
    ELSE Raised

\* crypto.createPrivateKey(key)
createPrivateKey(key) ==
    IF key.type \in {"string", "buffer"}
    THEN KeyObjectOrRaised("private", PrivateIdOfPem(key.text))
    ELSE Raised

\* The public KeyObject of a text that holds public key pub or, if it holds
\* none, private key priv.
PublicOrDerived(pub, priv) ==
    IF pub # 0 THEN KeyObj("public", pub)
    ELSE KeyObjectOrRaised("public", priv)

\* crypto.createPublicKey(key): from a public PEM, or derived from a
\* private PEM or a private KeyObject.
createPublicKey(key) ==
    IF key.type \in {"string", "buffer"}
    THEN PublicOrDerived(PublicIdOfPem(key.text), PrivateIdOfPem(key.text))
    ELSE IF key.type = "keyobject" /\ key.kind = "private"
    THEN KeyObj("public", key.id)
    ELSE Raised

\* The key pair a KeyLike argument of crypto.sign names, 0 when it is no
\* private key.
SigningKeyId(key) ==
    IF key.type = "keyobject"
    THEN (IF key.kind = "private" THEN key.id ELSE 0)
    ELSE createPrivateKey(key).id

\* The key pair a KeyLike argument of crypto.verify names, 0 for none.
VerifyingKeyId(key) ==
    IF key.type = "keyobject" THEN key.id ELSE createPublicKey(key).id

\* Byte i of a text folded into `length` bytes: the codes of the characters
\* at i, i + length, ... weighted by their place.  One to one on texts no
\* longer than `length`.
RECURSIVE FoldAt(_, _, _)
FoldAt(codes, i, length) ==
    IF i > Len(codes) THEN 0
    ELSE codes[i] * (2 * (i \div length) + 1) + FoldAt(codes, i + length, length)

\* ed25519: SignatureLength bytes fixed by the key and the message.  Ideal
\* scheme: the signature names its key and its message and nothing else
\* verifies.
Ed25519Sign(k, data) ==
    LET body == <<k>> \o [i \in DOMAIN data |-> CharCode[data[i]]]
    IN  [i \in 1 .. SignatureLength |->
            (FoldAt(body, i, SignatureLength) + 89 * i) % 256]

Ed25519Verify(k, data, sig) ==
    sig = Ed25519Sign(k, data)

\* crypto.sign(null, Buffer.from(text), key).toString('base64url');
\* Raised.text when the key is no private key.
SignedBy(k, data) ==
    IF k = 0 THEN Raised ELSE Str(ToBase64Url(Ed25519Sign(k, data)))

cryptoSign(data, key) ==
    SignedBy(SigningKeyId(key), data)

\* crypto.verify(null, Buffer.from(text), key, sigBytes): "true", "false",
\* or "throw" when the key cannot be read.
VerifiedBy(k, data, sigBytes) ==
    IF k = 0 THEN "throw"
    ELSE IF Ed25519Verify(k, data, sigBytes) THEN "true"
    ELSE "false"

cryptoVerify(data, key, sigBytes) ==
    VerifiedBy(VerifyingKeyId(key), data, sigBytes)

\* createHash('sha256').update(text).digest(): DigestLength bytes, the
\* first the length of the text.  No two texts the model hashes collide.
Sha256(text) ==
    LET codes == [i \in DOMAIN text |-> CharCode[text[i]]]
    IN  [i \in 1 .. DigestLength |->
            IF i = 1 THEN (Len(text) * 7) % 256
            ELSE (FoldAt(codes, i - 1, DigestLength - 1) + 31 * i) % 256]

(***************************************************************************)
(* lib.ts                                                                  *)
(***************************************************************************)
\* if (typeof timestamp === 'number') timestamp = timestamp.toString();
\* `t=${timestamp}&v=${version}`
StringToSign(timestamp, version) ==
    <<"t", "=">> \o ToText(timestamp) \o <<"&", "v", "=">> \o ToText(version)

\* A signer that leaves the version out of the message.
signBare(timestamp, key, version) ==
    cryptoSign(<<"t", "=">> \o ToText(timestamp), key)

\* sign(timestamp, key, version = 1): the signature as a string value, or
\* Raised.
sign(timestamp, key, version) ==
    cryptoSign(StringToSign(timestamp,
                            IF version.type = "undefined" THEN Num(1)
                            ELSE version),
               key)

\* A message to verify without the version.
StringToVerifyBare(timestamp, version) ==
    <<"t", "=">> \o ToText(timestamp)

\* if (typeof timestamp === 'number') timestamp = timestamp.toString();
\* `t=${timestamp}&v=${version}`
StringToVerify(timestamp, version) ==
    <<"t", "=">> \o ToText(timestamp) \o <<"&", "v", "=">> \o ToText(version)

\* A verifier that accepts a signature made by any key pair.
verifyAnyKey(timestamp, key, signature, version) ==
    IF signature.type # "string" THEN "throw"
    ELSE IF VerifyingKeyId(key) = 0 THEN "throw"
    ELSE IF \E k \in KeyIds :
                Ed25519Verify(k,
                              StringToVerify(timestamp,
                                             IF version.type = "undefined"
                                             THEN Num(1) ELSE version),
                              FromBase64Url(signature.text))
    THEN "true" ELSE "false"

\* A verifier that raises when the decoded signature has not the length of
\* a signature.
verifyStrictLength(timestamp, key, signature, version) ==
    IF signature.type # "string" THEN "throw"
    ELSE IF Len(FromBase64Url(signature.text)) # SignatureLength THEN "throw"
    ELSE cryptoVerify(StringToVerify(timestamp,
                                     IF version.type = "undefined"
                                     THEN Num(1) ELSE version),
                      key,
                      FromBase64Url(signature.text))

\* A verifier that takes the version to be 1 whatever version it is given.
verifyVersionOne(timestamp, key, signature, version) ==
    IF signature.type # "string" THEN "throw"
    ELSE cryptoVerify(StringToVerify(timestamp, Num(1)), key,
                      FromBase64Url(signature.text))

\* verify(timestamp, key, signature, version = 1): "true", "false", "throw".
verify(timestamp, key, signature, version) ==
    IF signature.type # "string" THEN "throw"
    ELSE cryptoVerify(StringToVerify(timestamp,
                                     IF version.type = "undefined"
                                     THEN Num(1) ELSE version),
                      key,
                      FromBase64Url(signature.text))

\* createFingerprint(publicKey): sha256 of publicKey.toString('utf8').
createFingerprint(publicKey) ==
    ToBase64Url(Sha256(ToText(publicKey)))

\* new URL(text): origin and pathname of an http(s) URL; ok is FALSE where
\* the constructor raises.
IndexOfAny(s, chars, from) ==
    IF \E i \in from .. Len(s) : s[i] \in chars
    THEN CHOOSE i \in from .. Len(s) :
            s[i] \in chars /\ \A j \in from .. (i - 1) : s[j] \notin chars
    ELSE Len(s) + 1

\* A URL parser whose pathname runs to the end of the text.
ParseUrlKeepingQuery(text) ==
    [ok |-> StartsWith(text, <<"h", "t", "t", "p">>),
     origin |-> <<>>,
     pathname |-> text]

ParseUrl(text) ==
    LET colon == IndexOfAny(text, {":"}, 1)
        scheme == SubSeq(text, 1, colon - 1)
        hostFrom == colon + 3
        hostEnd == IndexOfAny(text, {"/", "?", "#"}, hostFrom)
        pathEnd == IndexOfAny(text, {"?", "#"}, hostEnd)
        path == SubSeq(text, hostEnd, pathEnd - 1)
        ok == /\ scheme \in {<<"h", "t", "t", "p">>, <<"h", "t", "t", "p", "s">>}
              /\ SubSeq(text, colon, colon + 2) = <<":", "/", "/">>
              /\ hostEnd > hostFrom
    IN  [ok |-> ok,
         origin |-> IF ok THEN SubSeq(text, 1, hostEnd - 1) ELSE <<>>,
         pathname |-> IF ok /\ path # <<>> THEN path ELSE <<"/">>]

\* The formatter of the tests: `https://foo.bar/verify?s=${signature}&t=${timestamp}`
CustomFormatter(urlBase, timestamp, signature, version) ==
    <<"h", "t", "t", "p", "s", ":", "/", "/", "f", "o", "o", ".", "b", "a",
      "r", "/", "v", "e", "r", "i", "f", "y", "?", "s", "=">>
    \o ToText(signature) \o <<"&", "t", "=">> \o ToText(timestamp)

\* A built-in formatter that leaves the version out of the url.
DynamicUrlWithoutVersion(base, timestamp, signature, version) ==
    IF ~base.ok THEN Raised
    ELSE Str(base.origin \o base.pathname
             \o <<"?", "s", "=">> \o ToText(signature)
             \o <<"&", "t", "=">> \o ToText(timestamp))

\* A formatter that writes out every parameter it is given:
\* `${urlBase}?s=${signature}&t=${timestamp}&v=${version}`
EchoFormatter(urlBase, timestamp, signature, version) ==
    ToText(urlBase) \o <<"?", "s", "=">> \o ToText(signature)
    \o <<"&", "t", "=">> \o ToText(timestamp)
    \o <<"&", "v", "=">> \o ToText(version)

\* formatter({urlBase, timestamp, signature, version})
ApplyFormatter(formatter, urlBase, timestamp, signature, version) ==
    IF formatter = EchoFunction
    THEN EchoFormatter(urlBase, timestamp, signature, version)
    ELSE CustomFormatter(urlBase, timestamp, signature, version)

\* createDynamicQRDateURL({urlBase, timestamp, signature, formatter,
\* version = 1}): the url as a string value, or Raised.
\* `${base.origin}${base.pathname}?s=${signature}&t=${timestamp}&v=${version}`
DynamicUrlOn(base, timestamp, signature, version) ==
    IF ~base.ok THEN Raised
    ELSE Str(base.origin \o base.pathname
             \o <<"?", "s", "=">> \o ToText(signature)
             \o <<"&", "t", "=">> \o ToText(timestamp)
             \o <<"&", "v", "=">> \o ToText(version))

\* A parameter with the default 1.
OrOne(version) ==
    IF version.type = "undefined" THEN Num(1) ELSE version

\* A createDynamicQRDateURL that parses urlBase before it looks for a
\* formatter.
createDynamicQRDateURLParsingFirst(urlBase, timestamp, signature, formatter, version) ==
    IF ~ParseUrl(ToText(urlBase)).ok THEN Raised
    ELSE IF ~Falsy(formatter)
    THEN Str(ApplyFormatter(formatter, urlBase, timestamp, signature,
                            OrOne(version)))
    ELSE DynamicUrlOn(ParseUrl(ToText(urlBase)), timestamp, signature,
                      OrOne(version))

createDynamicQRDateURL(urlBase, timestamp, signature, formatter, version) ==
    IF ~Falsy(formatter)
    THEN Str(ApplyFormatter(formatter, urlBase, timestamp, signature,
                            OrOne(version)))
    ELSE DynamicUrlOn(ParseUrl(ToText(urlBase)), timestamp, signature,
                      OrOne(version))

\* A createStaticQRDateURL that writes the fingerprint as parameter p.
createStaticQRDateURLAsKey(timestamp, signature, fingerprint, version) ==
    <<"q", "r", "d", "a", "t", "e", ":", "/", "/", "v", "?", "s", "=">>
    \o ToText(signature) \o <<"&", "t", "=">> \o ToText(timestamp)
    \o <<"&", "p", "=">> \o ToText(fingerprint)
    \o <<"&", "v", "=">> \o ToText(version)

\* createStaticQRDateURL({timestamp, signature, fingerprint, version})
createStaticQRDateURL(timestamp, signature, fingerprint, version) ==
    <<"q", "r", "d", "a", "t", "e", ":", "/", "/", "v", "?", "s", "=">>
    \o ToText(signature) \o <<"&", "t", "=">> \o ToText(timestamp)
    \o <<"&", "f", "=">> \o ToText(fingerprint)
    \o <<"&", "v", "=">> \o ToText(version)

(***************************************************************************)
(* lib.ts of the salted revision (the one index.ts of that revision        *)
(* imports): the salt, the text to sign, sign and verify of a text, the    *)
(* URL.                                                                    *)
(***************************************************************************)
DefaultEntropyLength == 32

\* crypto.randomBytes(n): one of the sequences the source can give.
RandomBytes(n, seed) ==
    [i \in 1 .. n |-> (seed * 97 + i * 61 + 54) % 256]

\* generateSalt(entropyLength = 32)
generateSalt(entropyLength, seed) ==
    ToBase64Url(RandomBytes(IF entropyLength.type = "undefined"
                            THEN DefaultEntropyLength ELSE entropyLength.num,
                            seed))

\* formatClearTextSignature(timestamp, salt): the timestamp and then the salt.
formatClearTextSignature(timestamp, salt) ==
    ToText(timestamp) \o ToText(salt)

\* sign(clearText, privateKey)
signClearText(clearText, privateKey) ==
    cryptoSign(clearText, privateKey)

\* verify(clearText, publicKey, signature): "true", "false", "throw".
verifyClearText(clearText, publicKey, signature) ==
    IF signature.type # "string" THEN "throw"
    ELSE cryptoVerify(clearText, publicKey, FromBase64Url(signature.text))

\* The formatter of the tests:
\* `https://foo.bar/verify?s=${signature}&t=${timestamp}&e=${salt}`
CustomSaltedFormatter(urlBase, timestamp, signature, salt) ==
    <<"h", "t", "t", "p", "s", ":", "/", "/", "f", "o", "o", ".", "b", "a",
      "r", "/", "v", "e", "r", "i", "f", "y", "?", "s", "=">>
    \o ToText(signature) \o <<"&", "t", "=">> \o ToText(timestamp)
    \o <<"&", "e", "=">> \o ToText(salt)

\* createQRDateURL({urlBase, timestamp, signature, salt, formatter,
\* publicKey})
createQRDateURL(urlBase, timestamp, signature, salt, formatter, publicKey) ==
    LET query == <<"?", "s", "=">> \o ToText(signature)
                 \o <<"&", "t", "=">> \o ToText(timestamp)
                 \o <<"&", "e", "=">> \o ToText(salt)
    IN  IF ~Falsy(formatter)
        THEN CustomSaltedFormatter(urlBase, timestamp, signature, salt)
        ELSE IF urlBase = Str(<<"q", "r", "d", "a", "t", "e", ":", "/", "/">>)
        THEN ToText(urlBase) \o <<"v">> \o query
             \o <<"&", "p", "=">> \o ToText(publicKey)
        ELSE ToText(urlBase) \o <<"/", "v">> \o query

(***************************************************************************)
(* index.ts                                                                *)
(***************************************************************************)
formatPrivateKey(privateKey) ==
    IF /\ ~Falsy(privateKey)
       /\ privateKey.type = "string"
       /\ ~StartsWith(privateKey.text, PrivateHeader)
    THEN Str(PrivateHeader \o <<"\n">>
             \o ToBase64(FromBase64Url(privateKey.text))
             \o <<"\n">> \o PrivateFooter)
    ELSE privateKey

\* A formatPublicKey that leaves base64url text as it is.
formatPublicKeyUnwrapped(publicKey) ==
    publicKey

formatPublicKey(publicKey) ==
    IF /\ ~Falsy(publicKey)
       /\ publicKey.type = "string"
       /\ ~StartsWith(publicKey.text, PublicHeader)
    THEN Str(PublicHeader \o <<"\n">>
             \o ToBase64(FromBase64Url(publicKey.text))
             \o <<"\n">> \o PublicFooter)
    ELSE publicKey

\* What a create call leaves: the error it raised ("" for none), the fields
\* of the returned object, and whether it read the clock and called sign.
Outcome(error, timestamp, url, signature, fingerprint, version, salt, publicKey, readClock, signed) ==
    [error |-> error, timestamp |-> timestamp, url |-> url,
     signature |-> signature, fingerprint |-> fingerprint,
     version |-> version, salt |-> salt, publicKey |-> publicKey,
     readClock |-> readClock, signed |-> signed]

Failed(error, readClock, signed) ==
    Outcome(error, Undefined, Undefined, Undefined, Undefined, Undefined,
            Undefined, Undefined, readClock, signed)

\* privateKey = formatPrivateKey(privateKey);
\* if (typeof privateKey === 'string') privateKey = createPrivateKey(privateKey);
ParsedPrivate(formatted) ==
    IF formatted.type = "string" THEN createPrivateKey(formatted)
    ELSE formatted

PrivateKeyHandle(privateKey) ==
    ParsedPrivate(formatPrivateKey(privateKey))

\* The steps of createDynamicQRDate after the key is normalised: the
\* signature, the url, the object returned; an error raised by a step ends
\* the call.
DynamicReturned(timestamp, url, signature, version) ==
    IF url.type = "error" THEN Failed("TypeError", TRUE, TRUE)
    ELSE Outcome("", timestamp, url, signature, Undefined, version,
                 Undefined, Undefined, TRUE, TRUE)

DynamicFormatted(urlBase, formatter, timestamp, signature, version) ==
    IF signature.type = "error" THEN Failed("TypeError", TRUE, TRUE)
    ELSE DynamicReturned(timestamp,
                         createDynamicQRDateURL(urlBase, timestamp, signature,
                                                formatter, version),
                         signature, version)

\* A createDynamicQRDate that adds the public key to the url as parameter p.
DynamicSignedWithKey(key, urlBase, formatter, timestamp, version) ==
    IF key.type = "error" THEN Failed("TypeError", FALSE, FALSE)
    ELSE [DynamicFormatted(urlBase, formatter, timestamp,
                           sign(timestamp, key, version), version)
            EXCEPT !.url = IF @.type = "string"
                           THEN Str(@.text \o <<"&", "p", "=">>
                                    \o ToBase64Url(SpkiDer(key.id)))
                           ELSE @]

DynamicSigned(key, urlBase, formatter, timestamp, version) ==
    IF key.type = "error" THEN Failed("TypeError", FALSE, FALSE)
    ELSE DynamicFormatted(urlBase, formatter, timestamp,
                          sign(timestamp, key, version), version)

\* A createDynamicQRDate that does not ask for urlBase or formatter.
createDynamicQRDateUnchecked(privateKey, urlBase, formatter, clock) ==
    IF Falsy(privateKey) THEN Failed("privateKey is required", FALSE, FALSE)
    ELSE DynamicSigned(PrivateKeyHandle(privateKey), urlBase, formatter,
                       Num(clock), Num(1))

\* A createDynamicQRDate that signs under version 2 and says version 1 in
\* the url and in the object it returns.
createDynamicQRDateSigningTwo(privateKey, urlBase, formatter, clock) ==
    IF Falsy(privateKey) THEN Failed("privateKey is required", FALSE, FALSE)
    ELSE IF Falsy(urlBase) /\ Falsy(formatter)
    THEN Failed("urlBase or formatter is required", FALSE, FALSE)
    ELSE IF PrivateKeyHandle(privateKey).type = "error"
    THEN Failed("TypeError", FALSE, FALSE)
    ELSE DynamicFormatted(urlBase, formatter, Num(clock),
                          sign(Num(clock), PrivateKeyHandle(privateKey),
                               Num(2)),
                          Num(1))

\* createDynamicQRDate({privateKey, urlBase, formatter}) with the clock at
\* `clock`.
createDynamicQRDate(privateKey, urlBase, formatter, clock) ==
    IF Falsy(privateKey) THEN Failed("privateKey is required", FALSE, FALSE)
    ELSE IF Falsy(urlBase) /\ Falsy(formatter)
    THEN Failed("urlBase or formatter is required", FALSE, FALSE)
    ELSE DynamicSigned(PrivateKeyHandle(privateKey), urlBase, formatter,
                       Num(clock), Num(1))

\* createStaticQRDate(privateKey) with the clock at `clock`.
\* The steps of createStaticQRDate after the key is normalised: the public
\* key, the signature, the fingerprint, the url (built without a version),
\* the object returned.
StaticReturned(timestamp, signature, fingerprint) ==
    IF signature.type = "error" THEN Failed("TypeError", TRUE, TRUE)
    ELSE Outcome("", timestamp,
                 Str(createStaticQRDateURL(timestamp, signature, fingerprint,
                                           Undefined)),
                 signature, fingerprint, Num(1), Undefined, Undefined,
                 TRUE, TRUE)

\* A createStaticQRDate that gives the base64url text of the private key
\* for the fingerprint.
StaticSignedKeyAsFingerprint(key, publicKey, timestamp) ==
    IF publicKey.type = "error" THEN Failed("TypeError", FALSE, FALSE)
    ELSE StaticReturned(timestamp, sign(timestamp, key, Num(1)),
                        Str(ToBase64Url(Pkcs8Der(key.id))))

StaticSigned(key, publicKey, timestamp) ==
    IF publicKey.type = "error" THEN Failed("TypeError", FALSE, FALSE)
    ELSE StaticReturned(timestamp, sign(timestamp, key, Num(1)),
                        Str(createFingerprint(publicKey)))

StaticDerived(key, timestamp) ==
    IF key.type = "error" THEN Failed("TypeError", FALSE, FALSE)
    ELSE StaticSigned(key, createPublicKey(key), timestamp)

createStaticQRDate(privateKey, clock) ==
    IF Falsy(privateKey) THEN Failed("privateKey is required", FALSE, FALSE)
    ELSE StaticDerived(PrivateKeyHandle(privateKey), Num(clock))

\* publicKey = formatPublicKey(publicKey);
\* if (typeof publicKey === 'string') publicKey = createPublicKey(publicKey);
ParsedPublic(formatted) ==
    IF formatted.type = "string" THEN createPublicKey(formatted)
    ELSE formatted

PublicKeyHandle(publicKey) ==
    ParsedPublic(formatPublicKey(publicKey))

\* What a verifying call gives for the answer of verify: an error raised by
\* node:crypto ends the call.
Answer(valid) ==
    IF valid = "throw" THEN "TypeError" ELSE valid

\* return verify(timestamp, publicKey, signature), the key normalised.
VerifiedWith(key, timestamp, signature) ==
    IF key.type = "error" THEN "TypeError"
    ELSE Answer(verify(timestamp, key, signature, Undefined))

\* A verifyDynamicQRDate that does not ask for the signature.
verifyDynamicQRDateAnySignature(timestamp, signature, publicKey) ==
    IF Falsy(timestamp) THEN "timestamp is required"
    ELSE IF Falsy(publicKey) THEN "publicKey is required"
    ELSE VerifiedWith(PublicKeyHandle(publicKey), timestamp, signature)

\* verifyDynamicQRDate({timestamp, signature, publicKey}): "true", "false",
\* or the error raised.
verifyDynamicQRDate(timestamp, signature, publicKey) ==
    IF Falsy(timestamp) THEN "timestamp is required"
    ELSE IF Falsy(signature) THEN "signature is required"
    ELSE IF Falsy(publicKey) THEN "publicKey is required"
    ELSE VerifiedWith(PublicKeyHandle(publicKey), timestamp, signature)

\* A verifyStaticQRDate that does not compare the fingerprints.
verifyStaticQRDateUnchecked(timestamp, signature, fingerprint, publicKey) ==
    IF Falsy(timestamp) THEN "timestamp is required"
    ELSE IF Falsy(signature) THEN "signature is required"
    ELSE IF Falsy(fingerprint) THEN "fingerprint is required"
    ELSE IF Falsy(publicKey) THEN "publicKey is required"
    ELSE VerifiedWith(PublicKeyHandle(publicKey), timestamp, signature)

\* const verifyFingerprint = createFingerprint(publicKey);
\* if (verifyFingerprint !== fingerprint) return false;
\* return verify(timestamp, publicKey, signature);
FingerprintChecked(key, timestamp, signature, fingerprint) ==
    IF key.type = "error" THEN "TypeError"
    ELSE IF Str(createFingerprint(key)) # fingerprint THEN "false"
    ELSE VerifiedWith(key, timestamp, signature)

\* verifyStaticQRDate({timestamp, signature, fingerprint, publicKey})
verifyStaticQRDate(timestamp, signature, fingerprint, publicKey) ==
    IF Falsy(timestamp) THEN "timestamp is required"
    ELSE IF Falsy(signature) THEN "signature is required"
    ELSE IF Falsy(fingerprint) THEN "fingerprint is required"
    ELSE IF Falsy(publicKey) THEN "publicKey is required"
    ELSE FingerprintChecked(PublicKeyHandle(publicKey), timestamp, signature,
                            fingerprint)

(***************************************************************************)
(* index.ts of the salted revision                                         *)
(***************************************************************************)
\* A createQRDate whose url carries the salt without its first character.
SaltedReturnedUrlSaltCut(urlBase, formatter, timestamp, salt, signature, publicKey) ==
    IF signature.type = "error" THEN Failed("TypeError", TRUE, TRUE)
    ELSE Outcome("", timestamp,
                 Str(createQRDateURL(urlBase, timestamp, signature,
                                     Str(Tail(salt.text)), formatter,
                                     publicKey)),
                 signature, Undefined, Undefined, salt, publicKey, TRUE, TRUE)

\* The steps of createQRDate after its checks: the public key derived and
\* exported, the signature of timestamp and salt, the url, the object
\* returned.
SaltedReturned(urlBase, formatter, timestamp, salt, signature, publicKey) ==
    IF signature.type = "error" THEN Failed("TypeError", TRUE, TRUE)
    ELSE Outcome("", timestamp,
                 Str(createQRDateURL(urlBase, timestamp, signature, salt,
                                     formatter, publicKey)),
                 signature, Undefined, Undefined, salt, publicKey, TRUE, TRUE)

\* A createQRDate that signs the timestamp without the salt.
SaltedSignedTimestampOnly(derived, privateKey, urlBase, formatter, timestamp, salt) ==
    IF derived.type = "error" THEN Failed("TypeError", FALSE, FALSE)
    ELSE SaltedReturned(urlBase, formatter, timestamp, salt,
                        signClearText(ToText(timestamp), privateKey),
                        Str(ToBase64Url(SpkiDer(derived.id))))

SaltedSigned(derived, privateKey, urlBase, formatter, timestamp, salt) ==
    IF derived.type = "error" THEN Failed("TypeError", FALSE, FALSE)
    ELSE SaltedReturned(urlBase, formatter, timestamp, salt,
                        signClearText(formatClearTextSignature(timestamp, salt),
                                      privateKey),
                        Str(ToBase64Url(SpkiDer(derived.id))))

\* createQRDate({urlBase, privateKey, formatter, entropyLength}) with the
\* clock at `clock` and the random source giving sequence `seed`.
createQRDate(urlBase, privateKey, formatter, entropyLength, clock, seed) ==
    IF Falsy(urlBase) /\ Falsy(formatter)
    THEN Failed("urlBase or formatter is required", FALSE, FALSE)
    ELSE IF Falsy(privateKey) THEN Failed("privateKey is required", FALSE, FALSE)
    ELSE SaltedSigned(createPublicKey(privateKey), privateKey, urlBase,
                      formatter, Num(clock),
                      Str(generateSalt(entropyLength, seed)))

\* if (!publicKey && privateKey) publicKey = createPublicKey(privateKey);
DerivedIfMissing(publicKey, privateKey) ==
    IF Falsy(publicKey) /\ ~Falsy(privateKey)
    THEN createPublicKey(privateKey)
    ELSE publicKey

\* return verify(formatClearTextSignature(timestamp, salt), publicKey,
\* signature)
SaltedVerifiedWith(key, timestamp, salt, signature) ==
    IF key.type = "error" THEN "TypeError"
    ELSE Answer(verifyClearText(formatClearTextSignature(timestamp, salt),
                                key, signature))

\* A verifyQRDate that does not ask for a key.
verifyQRDateAnyKey(timestamp, salt, signature, privateKey, publicKey) ==
    IF Falsy(timestamp) THEN "timestamp is required"
    ELSE IF Falsy(salt) THEN "salt is required"
    ELSE SaltedVerifiedWith(DerivedIfMissing(formatPublicKey(publicKey),
                                             formatPrivateKey(privateKey)),
                            timestamp, salt, signature)

\* verifyQRDate({timestamp, salt, signature, privateKey, publicKey}):
\* "true", "false", or the error raised.
verifyQRDate(timestamp, salt, signature, privateKey, publicKey) ==
    IF Falsy(timestamp) THEN "timestamp is required"
    ELSE IF Falsy(salt) THEN "salt is required"
    ELSE IF Falsy(publicKey) /\ Falsy(privateKey)
    THEN "privateKey or publicKey is required"
    ELSE SaltedVerifiedWith(DerivedIfMissing(formatPublicKey(publicKey),
                                             formatPrivateKey(privateKey)),
                            timestamp, salt, signature)

(***************************************************************************)
(* The state machine: a caller makes one call at a time and takes its      *)
(* result; the clock moves between calls.  qr is the QR Date the caller    *)
(* last obtained, with the key pair that signed it.                        *)
(***************************************************************************)
VARIABLES now, pc, call, out, verdict, qr

vars == <<now, pc, call, out, verdict, qr>>

\* Random sequences the salt is drawn from.
NumSeeds == 2

NoCall ==
    [op |-> "none", privateKey |-> Undefined, publicKey |-> Undefined,
     urlBase |-> Undefined, formatter |-> Undefined,
     entropyLength |-> Undefined, timestamp |-> Undefined,
     signature |-> Undefined, fingerprint |-> Undefined, salt |-> Undefined,
     version |-> Undefined]

NoOutcome ==
    Failed("", FALSE, FALSE)

NoQr ==
    [kind |-> "none", key |-> 0, timestamp |-> Undefined,
     signature |-> Undefined, fingerprint |-> Undefined, salt |-> Undefined]

\* --- the arguments callers pass ---
SkidooText ==
    <<"2", "3", " ", "s", "k", "i", "d", "o", "o">>

\* A key pair's private key as PEM text, as base64url text of the DER, as a
\* Buffer of the PEM text, and as a KeyObject.
PrivateKeyForms(k) ==
    {Str(PrivatePem(k)), Str(ToBase64Url(Pkcs8Der(k))), Buf(PrivatePem(k)),
     KeyObj("private", k)}

PublicKeyForms(k) ==
    {Str(PublicPem(k)), Str(ToBase64Url(SpkiDer(k))), Buf(PublicPem(k)),
     KeyObj("public", k)}

PrivateKeyInputs ==
    UNION {PrivateKeyForms(k) : k \in KeyIds}
    \cup {Undefined, Str(SkidooText), PlainObject}

PublicKeyInputs ==
    UNION {PublicKeyForms(k) : k \in KeyIds} \cup {Undefined, Str(SkidooText)}

UrlBaseInputs ==
    {Undefined,
     Str(<<"h", "t", "t", "p", "s", ":", "/", "/", "h", "/", "v">>),
     Str(<<"h", "t", "t", "p", "s", ":", "/", "/", "h", "?", "a", "=", "1",
           "#", "f">>),
     Str(<<"h", "/", "v">>)}

SaltedUrlBaseInputs ==
    {Undefined, Str(<<"h", "t", "t", "p", "s", ":", "/", "/", "h">>),
     Str(<<"q", "r", "d", "a", "t", "e", ":", "/", "/">>)}

FormatterInputs ==
    {Undefined, Function}

DynamicFormatterInputs ==
    {Undefined, Function, EchoFunction}

\* Signatures and fingerprints given to the URL functions: base64url texts.
UrlSignatureInputs ==
    {Str(<<"x", "-", "_", "9">>), Str(ToBase64Url(RandomBytes(4, 1)))}

UrlFingerprintInputs ==
    {Str(<<"f", "_", "-", "0">>), Str(createFingerprint(KeyObj("public", 1)))}

VersionInputs ==
    {Undefined, Num(1), Num(2)}

EntropyLengthInputs ==
    {Undefined, Num(2)}

\* The key pair a private key argument holds, 0 for none.
KeyIdOf(privateKey) ==
    IF \E k \in KeyIds : privateKey \in PrivateKeyForms(k)
    THEN CHOOSE k \in KeyIds : privateKey \in PrivateKeyForms(k) ELSE 0

\* --- texts an attacker or a careless caller derives from a text ---
\* The base64url digit after c (cyclically), c itself if it is no digit.
NextDigit(c) ==
    IF c \in Range(Base64UrlAlphabet)
    THEN Base64UrlAlphabet[(IndexIn(c, Base64UrlAlphabet) % 64) + 1]
    ELSE c

OneCharReplaced(a, b) ==
    /\ Len(a) = Len(b)
    /\ Cardinality({i \in DOMAIN a : a[i] # b[i]}) = 1

\* '-' and '_' in their base64 spelling, any other character replaced by
\* one that is no digit.
Respelled(c) ==
    IF c = "-" THEN "+" ELSE IF c = "_" THEN "/" ELSE "!"

\* One character of a base64url text replaced: by the next digit, by the
\* other spelling of the same digit or by a character that is no digit.
Tampered(text) ==
    UNION {{[text EXCEPT ![i] = c] :
                c \in {NextDigit(text[i]), Respelled(text[i])}} :
           i \in DOMAIN text}

\* One digit of a decimal text replaced.
TamperedDecimal(text) ==
    {[text EXCEPT ![i] = c] : i \in DOMAIN text, c \in {"0", "1", "9"}}
    \ {text}

Malformed(text) ==
    {<<>>, <<"!">>, <<"A", "A">>, text \o <<"f", "o", "o">>,
     SubSeq(text, 1, Len(text) - 1)}

StrsOf(texts) ==
    {Str(t) : t \in texts}

\* A key pair's public key in the form verification is mostly given.
PemKeys ==
    {Str(PublicPem(k)) : k \in KeyIds}

\* The arguments verification is called with, given the QR Date at hand.
Intact ==
    [timestamp |-> qr.timestamp, signature |-> qr.signature,
     fingerprint |-> qr.fingerprint, salt |-> qr.salt,
     publicKey |-> Undefined, privateKey |-> Undefined]

TimestampForms(t) ==
    IF t.type = "number" THEN {t, Str(NumToString(t.num))} ELSE {t}

\* A timestamp and a salt with a decimal digit moved from one to the other:
\* the first character of the salt, if it is a digit, onto the end of the
\* timestamp, and the last digit of the timestamp, if it is not the only
\* one, onto the front of the salt.
Shifted(timestamp, salt) ==
    IF timestamp.type # "number" \/ salt.type # "string" \/ salt.text = <<>>
    THEN {}
    ELSE {[timestamp |-> Num(timestamp.num * 10
                             + IndexIn(Head(salt.text), Digits) - 1),
           salt |-> Str(Tail(salt.text))] :
            x \in {1} \cap {IF Head(salt.text) \in Range(Digits)
                            THEN 1 ELSE 0}}
         \cup {[timestamp |-> Num(timestamp.num \div 10),
                salt |-> Str(<<Digits[(timestamp.num % 10) + 1]>>
                             \o salt.text)] :
                 x \in {1} \cap {IF timestamp.num >= 10 THEN 1 ELSE 0}}

VerifyInputs ==
    LET own == IF qr.key = 0 THEN Undefined ELSE Str(PrivatePem(qr.key))
        OwnPem == IF qr.key = 0 THEN {} ELSE {Str(PublicPem(qr.key))}
    IN
    \* the QR Date as it is, every form of every key
    {[Intact EXCEPT !.timestamp = t, !.publicKey = pub, !.privateKey = priv] :
        t \in TimestampForms(qr.timestamp), pub \in PublicKeyInputs,
        priv \in {Undefined, own}}
    \* one character of the signature replaced, or a malformed signature
    \cup {[Intact EXCEPT !.signature = s, !.publicKey = pub] :
            s \in StrsOf(Tampered(qr.signature.text)
                         \cup Malformed(qr.signature.text)),
            pub \in OwnPem}
    \* one character of the timestamp replaced
    \cup {[Intact EXCEPT !.timestamp = t, !.publicKey = pub] :
            t \in StrsOf(TamperedDecimal(ToText(qr.timestamp))),
            pub \in PemKeys}
    \* one character of the fingerprint or of the salt replaced
    \cup {[Intact EXCEPT !.fingerprint = f, !.publicKey = pub] :
            f \in StrsOf(Tampered(qr.fingerprint.text)), pub \in OwnPem}
    \cup {[Intact EXCEPT !.salt = e, !.publicKey = pub] :
            e \in StrsOf(Tampered(qr.salt.text)), pub \in OwnPem}
    \* a digit moved between the timestamp and the salt
    \cup {[Intact EXCEPT !.timestamp = p.timestamp, !.salt = p.salt,
                         !.publicKey = pub] :
            p \in Shifted(qr.timestamp, qr.salt), pub \in OwnPem}
    \* arguments left out, timestamp 0
    \cup {[Intact EXCEPT !.timestamp = t, !.signature = s, !.fingerprint = f,
                         !.salt = e, !.publicKey = pub] :
            t \in {qr.timestamp, Undefined, Num(0)},
            s \in {qr.signature, Undefined},
            f \in {qr.fingerprint, Undefined},
            e \in {qr.salt, Undefined},
            pub \in {Str(PublicPem(1)), Undefined}}

Init ==
    /\ now \in MinClock .. MaxClock
    /\ pc = "idle"
    /\ call = NoCall
    /\ out = NoOutcome
    /\ verdict = ""
    /\ qr = NoQr

Tick ==
    /\ pc = "idle"
    /\ now < MaxClock
    /\ now' = now + 1
    /\ UNCHANGED <<pc, call, out, verdict, qr>>

\* The QR Date a create call hands over, the one at hand if it raised.
Obtained(kind, privateKey, made) ==
    IF made.error = ""
    THEN [kind |-> kind, key |-> KeyIdOf(privateKey),
          timestamp |-> made.timestamp, signature |-> made.signature,
          fingerprint |-> made.fingerprint, salt |-> made.salt]
    ELSE qr

CreateDynamic ==
    /\ pc = "idle"
    /\ \E privateKey \in PrivateKeyInputs, urlBase \in UrlBaseInputs,
          formatter \in DynamicFormatterInputs :
        LET made == createDynamicQRDate(privateKey, urlBase, formatter, now)
        IN  /\ call' = [NoCall EXCEPT !.op = "createDynamicQRDate",
                                      !.privateKey = privateKey,
                                      !.urlBase = urlBase,
                                      !.formatter = formatter]
            /\ out' = made
            /\ qr' = Obtained("dynamic", privateKey, made)
    /\ pc' = "returned"
    /\ UNCHANGED <<now, verdict>>

CreateStatic ==
    /\ pc = "idle"
    /\ \E privateKey \in PrivateKeyInputs :
        LET made == createStaticQRDate(privateKey, now)
        IN  /\ call' = [NoCall EXCEPT !.op = "createStaticQRDate",
                                      !.privateKey = privateKey]
            /\ out' = made
            /\ qr' = Obtained("static", privateKey, made)
    /\ pc' = "returned"
    /\ UNCHANGED <<now, verdict>>

CreateSalted ==
    /\ pc = "idle"
    /\ \E privateKey \in PrivateKeyInputs, urlBase \in SaltedUrlBaseInputs,
          formatter \in FormatterInputs,
          entropyLength \in EntropyLengthInputs, seed \in 1 .. NumSeeds :
        LET made == createQRDate(urlBase, privateKey, formatter,
                                 entropyLength, now, seed)
        IN  /\ call' = [NoCall EXCEPT !.op = "createQRDate",
                                      !.privateKey = privateKey,
                                      !.urlBase = urlBase,
                                      !.formatter = formatter,
                                      !.entropyLength = entropyLength]
            /\ out' = made
            /\ qr' = Obtained("salted", privateKey, made)
    /\ pc' = "returned"
    /\ UNCHANGED <<now, verdict>>

\* The call a verification makes of arguments a.
Verification(op, a) ==
    [NoCall EXCEPT !.op = op, !.privateKey = a.privateKey,
                   !.publicKey = a.publicKey, !.timestamp = a.timestamp,
                   !.signature = a.signature, !.fingerprint = a.fingerprint,
                   !.salt = a.salt]

\* A verifyDynamicQRDate that remembers the signature the last create call
\* made and answers true for it without verifying.
VerifyDynamicRemembering ==
    /\ pc = "idle"
    /\ \E a \in {x \in VerifyInputs : x.salt = qr.salt} :
        /\ call' = [Verification("verifyDynamicQRDate", a)
                        EXCEPT !.fingerprint = Undefined, !.salt = Undefined]
        /\ verdict' = IF qr.kind # "none" /\ a.signature = qr.signature
                      THEN "true"
                      ELSE verifyDynamicQRDate(a.timestamp, a.signature,
                                               a.publicKey)
    /\ pc' = "returned"
    /\ UNCHANGED <<now, out, qr>>

VerifyDynamic ==
    /\ pc = "idle"
    /\ \E a \in {x \in VerifyInputs : x.salt = qr.salt} :
        /\ call' = [Verification("verifyDynamicQRDate", a)
                        EXCEPT !.fingerprint = Undefined, !.salt = Undefined]
        /\ verdict' = verifyDynamicQRDate(a.timestamp, a.signature,
                                          a.publicKey)
    /\ pc' = "returned"
    /\ UNCHANGED <<now, out, qr>>

VerifyStatic ==
    /\ pc = "idle"
    /\ \E a \in {x \in VerifyInputs : x.salt = qr.salt} :
        /\ call' = [Verification("verifyStaticQRDate", a)
                        EXCEPT !.privateKey = Undefined, !.salt = Undefined]
        /\ verdict' = verifyStaticQRDate(a.timestamp, a.signature,
                                         a.fingerprint, a.publicKey)
    /\ pc' = "returned"
    /\ UNCHANGED <<now, out, qr>>

VerifySalted ==
    /\ pc = "idle"
    /\ \E a \in {x \in VerifyInputs : x.fingerprint = qr.fingerprint} :
        /\ call' = [Verification("verifyQRDate", a)
                        EXCEPT !.fingerprint = Undefined]
        /\ verdict' = verifyQRDate(a.timestamp, a.salt, a.signature,
                                   a.privateKey, a.publicKey)
    /\ pc' = "returned"
    /\ UNCHANGED <<now, out, qr>>

\* verify(timestamp, key, signature, version) of lib.ts called directly.
VerifyVersions(a) ==
    IF a.signature = qr.signature /\ a.timestamp = qr.timestamp
    THEN {Undefined, Num(1), Num(2)} ELSE {Undefined}

CallVerify ==
    /\ pc = "idle"
    /\ \E a \in {x \in VerifyInputs :
                    /\ x.privateKey = Undefined
                    /\ x.fingerprint = qr.fingerprint
                    /\ x.salt = qr.salt} :
        \E version \in VerifyVersions(a) :
            /\ call' = [Verification("verify", a)
                            EXCEPT !.fingerprint = Undefined,
                                   !.salt = Undefined, !.version = version]
            /\ verdict' = verify(a.timestamp, a.publicKey, a.signature,
                                 version)
    /\ pc' = "returned"
    /\ UNCHANGED <<now, out, qr>>

\* What a call of a URL function leaves: the url, or the error raised.
UrlOutcome(url) ==
    IF url.type = "error" THEN Failed("TypeError", FALSE, FALSE)
    ELSE Outcome("", Undefined, url, Undefined, Undefined, Undefined,
                 Undefined, Undefined, FALSE, FALSE)

\* createDynamicQRDateURL of lib.ts called directly.
CallCreateDynamicQRDateURL ==
    /\ pc = "idle"
    /\ \E urlBase \in UrlBaseInputs, signature \in UrlSignatureInputs,
          formatter \in DynamicFormatterInputs, version \in VersionInputs :
        /\ call' = [NoCall EXCEPT !.op = "createDynamicQRDateURL",
                                  !.urlBase = urlBase,
                                  !.timestamp = Num(now),
                                  !.signature = signature,
                                  !.formatter = formatter,
                                  !.version = version]
        /\ out' = UrlOutcome(createDynamicQRDateURL(urlBase, Num(now),
                                                    signature, formatter,
                                                    version))
    /\ pc' = "returned"
    /\ UNCHANGED <<now, verdict, qr>>

\* What a call of sign leaves: the signature, or the error raised.
SignOutcome(signature) ==
    IF signature.type = "error" THEN Failed("TypeError", FALSE, TRUE)
    ELSE Outcome("", Undefined, Undefined, signature, Undefined, Undefined,
                 Undefined, Undefined, FALSE, TRUE)

\* The timestamps sign is given: 0 and the values of the clock.
SignTimestamps ==
    {0} \cup (MinClock .. MaxClock)

\* A sign that puts the reading of the clock into the message it signs.
CallSignStamped ==
    /\ pc = "idle"
    /\ \E timestamp \in UNION {TimestampForms(Num(t)) : t \in SignTimestamps},
          key \in PrivateKeyInputs, version \in VersionInputs :
        /\ call' = [NoCall EXCEPT !.op = "sign", !.timestamp = timestamp,
                                  !.privateKey = key, !.version = version]
        /\ out' = SignOutcome(cryptoSign(StringToSign(timestamp,
                                                      OrOne(version))
                                         \o NumToString(now),
                                         key))
    /\ pc' = "returned"
    /\ UNCHANGED <<now, verdict, qr>>

\* sign(timestamp, key, version) of lib.ts called directly, the timestamp a
\* number or its decimal text.
CallSign ==
    /\ pc = "idle"
    /\ \E timestamp \in UNION {TimestampForms(Num(t)) : t \in SignTimestamps},
          key \in PrivateKeyInputs, version \in VersionInputs :
        /\ call' = [NoCall EXCEPT !.op = "sign", !.timestamp = timestamp,
                                  !.privateKey = key, !.version = version]
        /\ out' = SignOutcome(sign(timestamp, key, version))
    /\ pc' = "returned"
    /\ UNCHANGED <<now, verdict, qr>>

\* createStaticQRDateURL of lib.ts called directly.
CallCreateStaticQRDateURL ==
    /\ pc = "idle"
    /\ \E signature \in UrlSignatureInputs,
          fingerprint \in UrlFingerprintInputs, version \in VersionInputs :
        /\ call' = [NoCall EXCEPT !.op = "createStaticQRDateURL",
                                  !.timestamp = Num(now),
                                  !.signature = signature,
                                  !.fingerprint = fingerprint,
                                  !.version = version]
        /\ out' = UrlOutcome(Str(createStaticQRDateURL(Num(now), signature,
                                                       fingerprint, version)))
    /\ pc' = "returned"
    /\ UNCHANGED <<now, verdict, qr>>

\* The caller takes the result; the QR Date stays at hand.
Return ==
    /\ pc = "returned"
    /\ pc' = "idle"
    /\ call' = NoCall
    /\ out' = NoOutcome
    /\ verdict' = ""
    /\ UNCHANGED <<now, qr>>

Next ==
    \/ Tick
    \/ CreateDynamic
    \/ CreateStatic
    \/ CreateSalted
    \/ VerifyDynamic
    \/ VerifyStatic
    \/ VerifySalted
    \/ CallVerify
    \/ CallSign
    \/ CallCreateDynamicQRDateURL
    \/ CallCreateStaticQRDateURL
    \/ Return

Spec ==
    Init /\ [][Next]_vars

(***************************************************************************)
(* Reading a URL back: new URL(url).searchParams.get(name).                *)
(***************************************************************************)
\* The pieces of a text between separators.
RECURSIVE SplitOn(_, _)
SplitOn(text, separator) ==
    IF IndexOfAny(text, {separator}, 1) > Len(text) THEN <<text>>
    ELSE <<SubSeq(text, 1, IndexOfAny(text, {separator}, 1) - 1)>>
         \o SplitOn(SubSeq(text, IndexOfAny(text, {separator}, 1) + 1,
                           Len(text)),
                    separator)

\* The text before the fragment, and of it the text after the first '?'.
BeforeFragment(url) ==
    SubSeq(url, 1, IndexOfAny(url, {"#"}, 1) - 1)

AfterQuestionMark(text) ==
    SubSeq(text, IndexOfAny(text, {"?"}, 1) + 1, Len(text))

QueryOf(url) ==
    AfterQuestionMark(BeforeFragment(url))

\* The name and the value of a piece name=value of a query; in a value '+'
\* reads as a space.
ParamName(piece) ==
    SubSeq(piece, 1, IndexOfAny(piece, {"="}, 1) - 1)

ParamValue(piece) ==
    [i \in 1 .. (Len(piece) - IndexOfAny(piece, {"="}, 1)) |->
        IF piece[IndexOfAny(piece, {"="}, 1) + i] = "+" THEN " "
        ELSE piece[IndexOfAny(piece, {"="}, 1) + i]]

\* The pieces of a query (a sequence of pieces) that bear a name.
Named(pieces, name) ==
    SelectSeq(pieces, LAMBDA piece : piece # <<>> /\ ParamName(piece) = name)

FirstValue(pieces) ==
    IF pieces = <<>> THEN Undefined ELSE Str(ParamValue(Head(pieces)))

\* searchParams.get(name): the value of the first parameter of that name,
\* Undefined (null) if there is none.
SearchParam(url, name) ==
    FirstValue(Named(SplitOn(QueryOf(url), "&"), name))

\* The names of the parameters of a url.
ParamNames(url) ==
    {ParamName(piece) : piece \in Range(SplitOn(QueryOf(url), "&")) \ {<<>>}}

\* A url with the parameters of its query in the opposite order.
RECURSIVE JoinReversed(_)
JoinReversed(pieces) ==
    IF Len(pieces) = 1 THEN Head(pieces)
    ELSE JoinReversed(Tail(pieces)) \o <<"&">> \o Head(pieces)

Reordered(url) ==
    SubSeq(url, 1, IndexOfAny(url, {"?"}, 1))
    \o JoinReversed(SplitOn(QueryOf(url), "&"))

(***************************************************************************)
(* Properties of the calls.                                                *)
(***************************************************************************)
Returned(op) ==
    pc = "returned" /\ call.op = op

\* The call passes the timestamp and the signature of the QR Date at hand.
IntactArgs ==
    call.timestamp = qr.timestamp /\ call.signature = qr.signature

\* The call passes, in one of its forms, the public key of the pair that
\* signed the QR Date at hand.
OwnersKey ==
    qr.key # 0 /\ call.publicKey \in PublicKeyForms(qr.key)

\* C1: dynamic round trip.  Whatever form the private key and whatever
\* urlBase or formatter createDynamicQRDate was given, verifyDynamicQRDate
\* called with the timestamp and the signature it returned and with the
\* public key of the same pair (in any form) returns true.
C1_DynamicRoundTrip ==
    (Returned("verifyDynamicQRDate") /\ qr.kind = "dynamic" /\ IntactArgs
        /\ OwnersKey)
    => verdict = "true"

C1_Witness ==
    /\ Returned("verifyDynamicQRDate") /\ qr.kind = "dynamic" /\ IntactArgs
    /\ OwnersKey /\ call.publicKey.type = "keyobject"
    /\ verdict = "true"

\* C2: static round trip.  verifyStaticQRDate called with the timestamp, the
\* signature and the fingerprint createStaticQRDate returned and with the
\* public key of the same pair (in any form) returns true.
C2_StaticRoundTrip ==
    (Returned("verifyStaticQRDate") /\ qr.kind = "static" /\ IntactArgs
        /\ call.fingerprint = qr.fingerprint /\ OwnersKey)
    => verdict = "true"

\* The verifier called fits the QR Date at hand and is given the PEM text
\* of the signing pair's public key.
VerifierOfPayload ==
    /\ pc = "returned"
    /\ qr.key # 0
    /\ call.publicKey = Str(PublicPem(qr.key))
    /\ call.privateKey = Undefined
    /\ call.version = Undefined
    /\ \/ call.op \in {"verify", "verifyDynamicQRDate"}
          /\ qr.kind \in {"dynamic", "static"}
       \/ call.op = "verifyStaticQRDate" /\ qr.kind = "static"
          /\ call.fingerprint = qr.fingerprint
       \/ call.op = "verifyQRDate" /\ qr.kind = "salted"

SaltIntact ==
    call.op = "verifyQRDate" => call.salt = qr.salt

SignatureReplaced ==
    /\ call.signature.type = "string"
    /\ OneCharReplaced(call.signature.text, qr.signature.text)
    /\ call.timestamp = qr.timestamp
    /\ SaltIntact

TimestampReplaced ==
    /\ call.timestamp.type = "string"
    /\ OneCharReplaced(call.timestamp.text, ToText(qr.timestamp))
    /\ call.signature = qr.signature
    /\ SaltIntact

SaltReplaced ==
    /\ call.op = "verifyQRDate"
    /\ call.salt.type = "string"
    /\ OneCharReplaced(call.salt.text, qr.salt.text)
    /\ IntactArgs

\* C3: tamper detection.  With one character of the signature, of the
\* timestamp or of the salt of a valid payload replaced by another
\* character, verify, verifyDynamicQRDate, verifyStaticQRDate and
\* verifyQRDate return false.
C3_TamperDetection ==
    (VerifierOfPayload
        /\ (SignatureReplaced \/ TimestampReplaced \/ SaltReplaced))
    => verdict = "false"

\* C4: wrong-key rejection.  verifyDynamicQRDate and verifyStaticQRDate
\* return true only if the signature is the valid signature, under the
\* public key supplied, of the message built from the timestamp supplied
\* and version 1; a signature a create call made with one key pair is not
\* accepted with the public key of another pair.
C4_WrongKeyRejected ==
    (pc = "returned"
        /\ call.op \in {"verifyDynamicQRDate", "verifyStaticQRDate"}
        /\ verdict = "true")
    => LET k == VerifyingKeyId(PublicKeyHandle(call.publicKey))
       IN  /\ k # 0
           /\ Ed25519Verify(k, StringToSign(call.timestamp, Num(1)),
                            FromBase64Url(call.signature.text))
           /\ (qr.kind \in {"dynamic", "static"}
                   /\ call.signature = qr.signature) => k = qr.key

C4_Witness ==
    /\ Returned("verifyStaticQRDate") /\ qr.kind = "static" /\ IntactArgs
    /\ call.fingerprint = qr.fingerprint
    /\ qr.key # 0
    /\ call.publicKey.type = "keyobject" /\ call.publicKey.id # qr.key
    /\ verdict = "false"

\* The call of verifyStaticQRDate names all its arguments and its key can be read.
StaticArgsPresent ==
    /\ ~Falsy(call.timestamp) /\ ~Falsy(call.signature)
    /\ ~Falsy(call.fingerprint) /\ ~Falsy(call.publicKey)
    /\ VerifyingKeyId(PublicKeyHandle(call.publicKey)) # 0

\* C5: fingerprint distinctness.  The fingerprint verifyStaticQRDate
\* computes of the public key handle of one pair differs from the
\* fingerprint createStaticQRDate computed of the handle of another pair.
C5_FingerprintDistinct ==
    (Returned("verifyStaticQRDate") /\ qr.kind = "static"
        /\ StaticArgsPresent
        /\ PublicKeyHandle(call.publicKey).type = "keyobject"
        /\ PublicKeyHandle(call.publicKey).id # qr.key)
    => createFingerprint(PublicKeyHandle(call.publicKey))
         # qr.fingerprint.text

\* C6: the fingerprint does not depend on the form of the key.  For the
\* PEM text, the base64url text, the Buffer of the PEM text and the
\* KeyObject of one public key, verifyStaticQRDate recomputes the same
\* fingerprint and returns the same result.
C6_FormIndependent ==
    (Returned("verifyStaticQRDate") /\ StaticArgsPresent)
    => \A k \in KeyIds :
        call.publicKey \in PublicKeyForms(k)
        => \A other \in PublicKeyForms(k) :
            /\ createFingerprint(PublicKeyHandle(other))
                 = createFingerprint(PublicKeyHandle(call.publicKey))
            /\ verifyStaticQRDate(call.timestamp, call.signature,
                                  call.fingerprint, other) = verdict

\* C7: a fingerprint mismatch is a failure.  verifyStaticQRDate returns
\* false whenever the fingerprint supplied differs from the one it
\* recomputes of the (readable) public key supplied, also when the signature
\* is valid for that key and timestamp.
C7_MismatchIsFalse ==
    (Returned("verifyStaticQRDate") /\ StaticArgsPresent
        /\ call.fingerprint.text
             # createFingerprint(PublicKeyHandle(call.publicKey)))
    => verdict = "false"

C7_Witness ==
    /\ Returned("verifyStaticQRDate") /\ StaticArgsPresent
    /\ qr.kind = "static" /\ IntactArgs /\ OwnersKey
    /\ call.fingerprint # qr.fingerprint
    /\ verify(call.timestamp, PublicKeyHandle(call.publicKey),
              call.signature, Undefined) = "true"
    /\ verdict = "false"

\* C8: verification with only a private key.  verifyDynamicQRDate called
\* with a private key and no public key returns what it returns when given
\* the public key derived from that private key.
C8_PrivateKeyOnly ==
    (Returned("verifyDynamicQRDate") /\ Falsy(call.publicKey)
        /\ KeyIdOf(call.privateKey) # 0)
    => verdict = verifyDynamicQRDate(
                    call.timestamp, call.signature,
                    createPublicKey(formatPrivateKey(call.privateKey)))

\* verify or verifyDynamicQRDate was given a timestamp, a signature string
\* and a public key that can be read.
SignatureStringCall ==
    /\ pc = "returned"
    /\ call.op \in {"verify", "verifyDynamicQRDate"}
    /\ call.signature.type = "string"
    /\ ~Falsy(call.timestamp)
    /\ VerifyingKeyId(IF call.op = "verify" THEN call.publicKey
                      ELSE PublicKeyHandle(call.publicKey)) # 0

SignatureValid ==
    \E k \in KeyIds :
        Ed25519Verify(k,
                      StringToSign(call.timestamp,
                                   IF call.version.type = "undefined"
                                   THEN Num(1) ELSE call.version),
                      FromBase64Url(call.signature.text))

\* C9 as stated: for every signature string (of a wrong length, with
\* characters that are no base64url digits, empty after decoding) verify and
\* verifyDynamicQRDate raise no error: they return false, or true for a
\* valid signature.
C9_NeverThrows ==
    SignatureStringCall
    => /\ verdict \in {"true", "false"}
       /\ ~SignatureValid => verdict = "false"

\* C9, amended: for every signature string that is not the empty string,
\* verify and verifyDynamicQRDate raise no error: they return false, or true
\* for a valid signature.  (verify returns false for the empty string as
\* well; verifyDynamicQRDate raises 'signature is required' for it.)
C9_NeverThrowsNonEmpty ==
    (SignatureStringCall
        /\ (call.op = "verifyDynamicQRDate" => call.signature.text # <<>>))
    => /\ verdict \in {"true", "false"}
       /\ ~SignatureValid => verdict = "false"

C9_Witness ==
    /\ SignatureStringCall /\ call.op = "verifyDynamicQRDate"
    /\ call.signature.text = <<"!">>
    /\ FromBase64Url(call.signature.text) = <<>>
    /\ verdict = "false"

\* C10: argument validation of createDynamicQRDate.  Without a privateKey,
\* or without both urlBase and formatter, it raises an error, returns no QR
\* Date, and neither reads the clock nor signs.
C10_CreateValidation ==
    (Returned("createDynamicQRDate")
        /\ (Falsy(call.privateKey)
            \/ (Falsy(call.urlBase) /\ Falsy(call.formatter))))
    => /\ out.error # ""
       /\ out.timestamp = Undefined /\ out.url = Undefined
       /\ out.signature = Undefined
       /\ ~out.readClock /\ ~out.signed

C10_Witness ==
    /\ Returned("createDynamicQRDate")
    /\ KeyIdOf(call.privateKey) # 0
    /\ Falsy(call.urlBase) /\ Falsy(call.formatter)
    /\ out.error = "urlBase or formatter is required"
    /\ ~out.readClock /\ ~out.signed

\* The errors that name an argument of the call that is missing (or empty,
\* or 0).
RequiredErrors(names) ==
    {e \in {"timestamp is required", "signature is required",
            "fingerprint is required", "publicKey is required"} :
        \/ e = "timestamp is required" /\ Falsy(call.timestamp)
        \/ e = "signature is required" /\ Falsy(call.signature)
        \/ e = "fingerprint is required" /\ Falsy(call.fingerprint)
              /\ "fingerprint" \in names
        \/ e = "publicKey is required" /\ Falsy(call.publicKey)}

SaltedRequiredErrors ==
    {e \in {"timestamp is required", "salt is required",
            "privateKey or publicKey is required", "TypeError"} :
        \/ e = "timestamp is required" /\ Falsy(call.timestamp)
        \/ e = "salt is required" /\ Falsy(call.salt)
        \/ e = "privateKey or publicKey is required"
              /\ Falsy(call.publicKey) /\ Falsy(call.privateKey)
        \/ e = "TypeError" /\ call.signature = Undefined}

\* C12: argument validation of the salted verifier.  verifyQRDate called
\* without signature, without timestamp, without salt, or with neither
\* privateKey nor publicKey raises an error and returns no boolean.
C12_SaltedVerifyValidation ==
    (Returned("verifyQRDate")
        /\ \/ Undefined \in {call.signature, call.timestamp, call.salt}
           \/ call.publicKey = Undefined /\ call.privateKey = Undefined)
    => /\ verdict \notin {"true", "false"}
       /\ verdict \in SaltedRequiredErrors

C12_Witness ==
    /\ Returned("verifyQRDate") /\ qr.kind = "salted" /\ IntactArgs
    /\ call.salt = qr.salt
    /\ call.publicKey = Undefined /\ call.privateKey = Undefined
    /\ verdict = "privateKey or publicKey is required"

\* The private key of the call is text that holds no key, or an object that
\* is no key.
UnparseableKey ==
    /\ ~Falsy(call.privateKey)
    /\ call.privateKey.type \in {"string", "object"}
    /\ KeyIdOf(call.privateKey) = 0

\* C13: an unparseable key is an error.  createStaticQRDate and
\* createDynamicQRDate, given as private key a text that is no key ('23
\* skidoo') or an object that is no key, raise an error and return no QR
\* Date.
C13_UnparseableKeyRaises ==
    (pc = "returned"
        /\ call.op \in {"createStaticQRDate", "createDynamicQRDate"}
        /\ UnparseableKey)
    => /\ out.error # ""
       /\ out.timestamp = Undefined /\ out.url = Undefined
       /\ out.signature = Undefined /\ out.fingerprint = Undefined

C13_Witness ==
    /\ Returned("createStaticQRDate")
    /\ call.privateKey = Str(SkidooText)
    /\ out.error = "TypeError" /\ out.signature = Undefined

\* The base64url text (no PEM header) of a pair's private and public key;
\* that of the first pair has digits ('-', '_') base64 spells otherwise.
PrivateBase64Url(k) ==
    Str(ToBase64Url(Pkcs8Der(k)))

PublicBase64Url(k) ==
    Str(ToBase64Url(SpkiDer(k)))

\* C14: key form equivalence.  A key given as base64url text is normalised
\* to the same key handle as its PEM text, and createDynamicQRDate,
\* createStaticQRDate, verifyDynamicQRDate and verifyStaticQRDate give for
\* the base64url form what they give for the PEM form of the same key with
\* the same clock and the same other arguments.
C14_KeyFormEquivalence ==
    \A k \in KeyIds :
        /\ (pc = "returned"
                /\ call.op \in {"createDynamicQRDate", "createStaticQRDate"}
                /\ call.privateKey = PrivateBase64Url(k))
           => /\ PrivateKeyHandle(call.privateKey)
                   = PrivateKeyHandle(Str(PrivatePem(k)))
              /\ call.op = "createDynamicQRDate"
                 => out = createDynamicQRDate(Str(PrivatePem(k)), call.urlBase,
                                              call.formatter, now)
              /\ call.op = "createStaticQRDate"
                 => out = createStaticQRDate(Str(PrivatePem(k)), now)
        /\ (pc = "returned"
                /\ call.op \in {"verifyDynamicQRDate", "verifyStaticQRDate"}
                /\ call.publicKey = PublicBase64Url(k))
           => /\ PublicKeyHandle(call.publicKey)
                   = PublicKeyHandle(Str(PublicPem(k)))
              /\ call.op = "verifyDynamicQRDate"
                 => verdict = verifyDynamicQRDate(call.timestamp,
                                                  call.signature,
                                                  Str(PublicPem(k)))
              /\ call.op = "verifyStaticQRDate"
                 => verdict = verifyStaticQRDate(call.timestamp,
                                                 call.signature,
                                                 call.fingerprint,
                                                 Str(PublicPem(k)))

C14_Witness ==
    /\ Returned("verifyStaticQRDate") /\ qr.kind = "static" /\ IntactArgs
    /\ call.fingerprint = qr.fingerprint
    /\ qr.key # 0 /\ call.publicKey = PublicBase64Url(qr.key)
    /\ verdict = "true"

\* A call made without a formatter returned a url.
BuiltInUrlReturned ==
    /\ pc = "returned"
    /\ call.op \in {"createDynamicQRDateURL", "createDynamicQRDate"}
    /\ Falsy(call.formatter)
    /\ out.error = ""

\* The text of the url up to its first '?', and from it on.
UrlBeforeQuery(url) ==
    SubSeq(url, 1, IndexOfAny(url, {"?"}, 1) - 1)

UrlFromQuery(url) ==
    SubSeq(url, IndexOfAny(url, {"?"}, 1), Len(url))

\* The text of a urlBase up to its query string or fragment.
UrlBaseWithoutQuery(urlBase) ==
    SubSeq(urlBase, 1, IndexOfAny(urlBase, {"?", "#"}, 1) - 1)

\* C15: shape of the dynamic URL.  Without a formatter,
\* createDynamicQRDateURL (called directly or by createDynamicQRDate)
\* returns the origin and the pathname of urlBase followed by
\* '?s=<signature>&t=<timestamp>&v=<version>'; a query string or fragment of
\* urlBase is dropped: the url has the parameters s, t and v and no other,
\* and no fragment.
C15_DynamicUrlShape ==
    BuiltInUrlReturned
    => /\ UrlBeforeQuery(out.url.text)
            = ParseUrl(call.urlBase.text).origin
              \o ParseUrl(call.urlBase.text).pathname
       /\ UrlBeforeQuery(out.url.text)
            \in {UrlBaseWithoutQuery(call.urlBase.text),
                 UrlBaseWithoutQuery(call.urlBase.text) \o <<"/">>}
       /\ UrlFromQuery(out.url.text)
            = <<"?", "s", "=">>
              \o (IF call.op = "createDynamicQRDate" THEN out.signature.text
                  ELSE call.signature.text)
              \o <<"&", "t", "=">>
              \o NumToString(IF call.op = "createDynamicQRDate"
                             THEN out.timestamp.num ELSE call.timestamp.num)
              \o <<"&", "v", "=">>
              \o NumToString(OrOne(call.version).num)
       /\ ParamNames(out.url.text) = {<<"s">>, <<"t">>, <<"v">>}
       /\ "#" \notin Range(out.url.text)

C15_Witness ==
    /\ BuiltInUrlReturned /\ call.op = "createDynamicQRDateURL"
    /\ "#" \in Range(call.urlBase.text) /\ "?" \in Range(call.urlBase.text)
    /\ call.version = Num(2)
    /\ SearchParam(out.url.text, <<"v">>) = Str(<<"2">>)
    /\ SearchParam(out.url.text, <<"a">>) = Undefined

\* A call made with a formatter returned; for createDynamicQRDate, one
\* given a private key that can be read.
FormatterCall ==
    /\ pc = "returned"
    /\ ~Falsy(call.formatter)
    /\ \/ call.op = "createDynamicQRDateURL"
       \/ call.op = "createDynamicQRDate" /\ KeyIdOf(call.privateKey) # 0

\* The timestamp and the signature the url of the call is made of.
UrlTimestamp ==
    IF call.op = "createDynamicQRDate" THEN out.timestamp ELSE call.timestamp

UrlSignature ==
    IF call.op = "createDynamicQRDate" THEN out.signature ELSE call.signature

\* C16: the formatter has precedence.  Given a formatter,
\* createDynamicQRDateURL and createDynamicQRDate return as url exactly what
\* the formatter returns for urlBase, timestamp, signature and version; they
\* do not parse urlBase, so a missing or unparseable urlBase raises no
\* error.  (The formatter that writes out its parameters shows all four.)
C16_FormatterPrecedence ==
    FormatterCall
    => /\ out.error = ""
       /\ out.url = Str(ApplyFormatter(call.formatter, call.urlBase,
                                       UrlTimestamp, UrlSignature,
                                       OrOne(call.version)))
       /\ call.formatter = EchoFunction
          => out.url.text
               = ToText(call.urlBase) \o <<"?", "s", "=">>
                 \o UrlSignature.text \o <<"&", "t", "=">>
                 \o NumToString(UrlTimestamp.num) \o <<"&", "v", "=">>
                 \o NumToString(OrOne(call.version).num)

C16_Witness ==
    /\ FormatterCall /\ call.op = "createDynamicQRDate"
    /\ call.formatter = EchoFunction /\ call.urlBase = Undefined
    /\ out.error = ""
    /\ StartsWith(out.url.text,
                  <<"u", "n", "d", "e", "f", "i", "n", "e", "d", "?", "s", "=">>)
    /\ EndsWith(out.url.text, <<"&", "v", "=", "1">>)

\* C17: shape of the static URL.  The url createStaticQRDate returns begins
\* with 'qrdate://v?' and its parameters s, t and f are the signature
\* returned, the decimal text of the timestamp returned and the fingerprint
\* returned.
C17_StaticUrlShape ==
    (Returned("createStaticQRDate") /\ out.error = "")
    => /\ StartsWith(out.url.text,
                     <<"q", "r", "d", "a", "t", "e", ":", "/", "/", "v", "?">>)
       /\ SearchParam(out.url.text, <<"s">>) = out.signature
       /\ SearchParam(out.url.text, <<"t">>)
            = Str(NumToString(out.timestamp.num))
       /\ SearchParam(out.url.text, <<"f">>) = out.fingerprint

C17_Witness ==
    /\ Returned("createStaticQRDate") /\ out.error = ""
    /\ call.privateKey.type = "keyobject"
    /\ out.timestamp = Num(MaxClock)
    /\ SearchParam(out.url.text, <<"t">>) = Str(NumToString(MaxClock))
    /\ SearchParam(out.url.text, <<"f">>) = out.fingerprint

\* A URL function was given a tuple of fields (timestamp, signature,
\* version, and for the static function a fingerprint) and no formatter.
FieldsEncoded ==
    /\ pc = "returned" /\ out.error = ""
    /\ \/ call.op = "createDynamicQRDateURL" /\ Falsy(call.formatter)
       \/ call.op = "createStaticQRDateURL" /\ call.version # Undefined

\* What reading a url by name gives for the fields of the call.
FieldsRecovered(url) ==
    /\ SearchParam(url, <<"s">>) = call.signature
    /\ SearchParam(url, <<"t">>) = Str(NumToString(call.timestamp.num))
    /\ SearchParam(url, <<"v">>) = Str(NumToString(OrOne(call.version).num))
    /\ SearchParam(url, <<"f">>) = call.fingerprint

\* C18: URL round trip.  For every tuple of fields with base64url signature
\* and fingerprint, reading by name the parameters of the url of
\* createDynamicQRDateURL (built-in formatter) or createStaticQRDateURL, in
\* the order written or in the opposite order, gives back the signature, the
\* timestamp, the fingerprint (none for a dynamic url) and the version.
C18_UrlRoundTrip ==
    FieldsEncoded
    => /\ FieldsRecovered(out.url.text)
       /\ FieldsRecovered(Reordered(out.url.text))

C18_Witness ==
    /\ FieldsEncoded /\ call.op = "createStaticQRDateURL"
    /\ call.version = Num(2)
    /\ "_" \in Range(call.signature.text)
    /\ StartsWith(Reordered(out.url.text),
                  <<"q", "r", "d", "a", "t", "e", ":", "/", "/", "v", "?",
                    "v", "=", "2", "&", "f", "=">>)
    /\ FieldsRecovered(Reordered(out.url.text))

\* sign was given a private key it can read.
SignedCall ==
    Returned("sign") /\ SigningKeyId(call.privateKey) # 0

\* The timestamp sign was given, as a number.
TimestampOfCall ==
    CHOOSE t \in SignTimestamps : call.timestamp \in TimestampForms(Num(t))

\* The message 't=<timestamp>&v=<version>' of the call, written out.
MessageOfCall ==
    <<"t", "=">> \o NumToString(TimestampOfCall) \o <<"&", "v", "=">>
    \o NumToString(IF call.version = Undefined THEN 1 ELSE call.version.num)

\* verify was given the signature of the QR Date at hand, its timestamp as a
\* number or as its decimal text, the version it was signed with (1) and
\* the public key of the signing pair as PEM text, Buffer or KeyObject.
VerifiedCall ==
    /\ Returned("verify") /\ qr.kind \in {"dynamic", "static"}
    /\ call.signature = qr.signature
    /\ call.timestamp \in TimestampForms(qr.timestamp)
    /\ OrOne(call.version) = Num(1)
    /\ qr.key # 0
    /\ call.publicKey \in {Str(PublicPem(qr.key)), Buf(PublicPem(qr.key)),
                           KeyObj("public", qr.key)}

\* C19: the same message on both sides.  For a timestamp given as a number
\* or as its decimal text, and every version (1 when left out), sign and
\* verify build the same message 't=<timestamp>&v=<version>', so the
\* signature sign returns is the same for both representations and verify
\* returns true for it with the public key of the pair, the version and
\* either representation of the timestamp; called with either
\* representation of the timestamp of a QR Date, verify returns true.
C19_SameMessage ==
    /\ SignedCall
       => /\ out.error = ""
          /\ \A t \in TimestampForms(Num(TimestampOfCall)) :
               /\ StringToSign(t, OrOne(call.version)) = MessageOfCall
               /\ StringToVerify(t, OrOne(call.version)) = MessageOfCall
               /\ sign(t, call.privateKey, call.version) = out.signature
               /\ verify(t, KeyObj("public", SigningKeyId(call.privateKey)),
                         out.signature, call.version) = "true"
    /\ VerifiedCall => verdict = "true"

C19_Witness ==
    /\ SignedCall /\ call.timestamp = Str(NumToString(MinClock))
    /\ call.version = Num(2) /\ out.error = ""
    /\ verify(Num(MinClock), KeyObj("public", SigningKeyId(call.privateKey)),
              out.signature, Num(2)) = "true"
    /\ verify(Num(MinClock), KeyObj("public", SigningKeyId(call.privateKey)),
              out.signature, Undefined) = "false"

\* The decimal text of the timestamp and then the salt, nothing between.
TimestampThenSalt(timestamp, salt) ==
    (IF timestamp.type = "number" THEN NumToString(timestamp.num)
     ELSE timestamp.text)
    \o salt.text

\* The key pair verifyQRDate verifies with: that of the public key given
\* or, if none is given, of the private key.
SaltedVerifyingKeyId ==
    VerifyingKeyId(DerivedIfMissing(formatPublicKey(call.publicKey),
                                    formatPrivateKey(call.privateKey)))

\* C20: the salted message.  formatClearTextSignature(timestamp, salt) is
\* the decimal text of the timestamp immediately followed by the salt; the
\* signature createQRDate returns is the signature of exactly that text of
\* the timestamp and the salt it returns, and verifyQRDate returns true
\* exactly if the signature given is the signature of that text of the
\* timestamp and the salt given.
C20_SaltedMessage ==
    /\ (Returned("createQRDate") /\ out.error = "")
       => /\ formatClearTextSignature(out.timestamp, out.salt)
               = TimestampThenSalt(out.timestamp, out.salt)
          /\ KeyIdOf(call.privateKey) # 0
          /\ out.signature
               = Str(ToBase64Url(Ed25519Sign(
                        KeyIdOf(call.privateKey),
                        TimestampThenSalt(out.timestamp, out.salt))))
    /\ (Returned("verifyQRDate") /\ verdict \in {"true", "false"})
       => /\ formatClearTextSignature(call.timestamp, call.salt)
               = TimestampThenSalt(call.timestamp, call.salt)
          /\ verdict = "true"
               <=> Ed25519Verify(SaltedVerifyingKeyId,
                                 TimestampThenSalt(call.timestamp, call.salt),
                                 FromBase64Url(call.signature.text))

C20_Witness ==
    /\ Returned("verifyQRDate") /\ qr.kind = "salted" /\ IntactArgs
    /\ call.salt = qr.salt /\ OwnersKey
    /\ Len(qr.salt.text) > 0
    /\ Ed25519Verify(qr.key, TimestampThenSalt(qr.timestamp, qr.salt),
                     FromBase64Url(qr.signature.text))
    /\ verdict = "true"

\* The number of bytes the salt of the call is made of.
EntropyLengthOfCall ==
    IF call.entropyLength = Undefined THEN DefaultEntropyLength
    ELSE call.entropyLength.num

\* The number of base64 digits n bytes take without padding: ceil(4n/3).
UnpaddedLength(n) ==
    (4 * n + 2) \div 3

\* C21: salt length.  generateSalt(n) is the unpadded base64url text of n
\* random bytes, a text of ceil(4n/3) base64url digits, 43 of them when no
\* length is given (n = 32); createQRDate returns such a salt and its url
\* carries the same salt as parameter e.
C21_SaltLength ==
    (Returned("createQRDate") /\ out.error = "")
    => /\ \E seed \in 1 .. NumSeeds :
            /\ out.salt = Str(generateSalt(call.entropyLength, seed))
            /\ out.salt.text
                 = ToBase64Url(RandomBytes(EntropyLengthOfCall, seed))
       /\ Len(out.salt.text) = UnpaddedLength(EntropyLengthOfCall)
       /\ Range(out.salt.text) \subseteq Range(Base64UrlAlphabet)
       /\ call.entropyLength = Undefined => Len(out.salt.text) = 43
       /\ SearchParam(out.url.text, <<"e">>) = out.salt

C21_Witness ==
    /\ Returned("createQRDate") /\ out.error = ""
    /\ call.entropyLength = Undefined /\ call.formatter = Undefined
    /\ Len(out.salt.text) = 43
    /\ SearchParam(out.url.text, <<"e">>) = out.salt

\* The decimal text of a version, of the default 1 if none is given.
VersionText(version) ==
    IF version = Undefined THEN <<"1">> ELSE NumToString(version.num)

\* sign has returned a signature, made with the private key of a key pair.
SignedByPair ==
    Returned("sign") /\ out.error = "" /\ KeyIdOf(call.privateKey) # 0

\* What verifyDynamicQRDate may return for the signature of the call: true
\* if it was made under version 1, false if under another; for the
\* timestamp 0 it may raise 'timestamp is required' instead.
PinnedVerdicts ==
    {IF VersionText(call.version) = <<"1">> THEN "true" ELSE "false"}
    \cup (IF TimestampOfCall = 0 THEN {"timestamp is required"} ELSE {})

\* C22: version pinning.  A signature sign made of a timestamp under
\* version v1 is accepted by verify under version v2, with the public key
\* of the same pair, exactly if v1 and v2 have the same decimal text;
\* verifyDynamicQRDate, which verifies under version 1, does not return
\* true for a signature made under another version (for a timestamp other
\* than 0 it returns false).
C22_VersionPinning ==
    SignedByPair
    => /\ \A v2 \in VersionInputs :
            verify(call.timestamp,
                   KeyObj("public", KeyIdOf(call.privateKey)),
                   out.signature, v2)
              = (IF VersionText(call.version) = VersionText(v2) THEN "true"
                 ELSE "false")
       /\ verifyDynamicQRDate(call.timestamp, out.signature,
                              KeyObj("public", KeyIdOf(call.privateKey)))
            \in PinnedVerdicts

C22_Witness ==
    /\ SignedByPair /\ call.version = Num(2)
    /\ verify(call.timestamp, KeyObj("public", KeyIdOf(call.privateKey)),
              out.signature, Num(2)) = "true"
    /\ verify(call.timestamp, KeyObj("public", KeyIdOf(call.privateKey)),
              out.signature, Num(1)) = "false"
    /\ verifyDynamicQRDate(call.timestamp, out.signature,
                           Str(PublicPem(KeyIdOf(call.privateKey)))) = "false"

\* What each call returns when it is the only call ever made: the function
\* of its arguments and of the clock (and, for the salt, of the random
\* bytes drawn).
CreateAlone ==
    /\ Returned("createDynamicQRDate")
       => out = createDynamicQRDate(call.privateKey, call.urlBase,
                                    call.formatter, now)
    /\ Returned("createStaticQRDate")
       => out = createStaticQRDate(call.privateKey, now)
    /\ Returned("createQRDate")
       => \E seed \in 1 .. NumSeeds :
            out = createQRDate(call.urlBase, call.privateKey, call.formatter,
                               call.entropyLength, now, seed)

VerifyAlone ==
    /\ Returned("verifyDynamicQRDate")
       => verdict = verifyDynamicQRDate(call.timestamp, call.signature,
                                        call.publicKey)
    /\ Returned("verifyStaticQRDate")
       => verdict = verifyStaticQRDate(call.timestamp, call.signature,
                                       call.fingerprint, call.publicKey)
    /\ Returned("verifyQRDate")
       => verdict = verifyQRDate(call.timestamp, call.salt, call.signature,
                                 call.privateKey, call.publicKey)

SignatureOf(timestampText, versionText, k) ==
    Str(ToBase64Url(Ed25519Sign(k, <<"t", "=">> \o timestampText
                                   \o <<"&", "v", "=">> \o versionText)))

\* C24: signing is deterministic.  Whenever and after whatever calls sign is
\* called, and in whatever form it is given the timestamp and the private
\* key, the signature string it returns is the one determined by the
\* decimal text of the timestamp, the version and the key pair.
C24_SignDeterministic ==
    SignedByPair
    => out.signature = SignatureOf(NumToString(TimestampOfCall),
                                   VersionText(call.version),
                                   KeyIdOf(call.privateKey))

\* sign called for a timestamp that is not the reading of the clock, after
\* a QR Date was created.
C24_Witness ==
    /\ SignedByPair /\ TimestampOfCall = MinClock /\ now > MinClock
    /\ qr.kind # "none"
    /\ out.signature = SignatureOf(NumToString(MinClock),
                                   VersionText(call.version),
                                   KeyIdOf(call.privateKey))

\* part occurs in text.
Contains(text, part) ==
    \E i \in 1 .. (Len(text) - Len(part) + 1) :
        SubSeq(text, i, i + Len(part) - 1) = part

\* The texts of the public key of pair k (PEM, the base64 and the
\* base64url text of its DER) and its fingerprints, that of the PEM text
\* and that of the KeyObject.
PublicKeyTexts(k) ==
    {PublicPem(k), ToBase64(SpkiDer(k)), ToBase64Url(SpkiDer(k))}

FingerprintTexts(k) ==
    {createFingerprint(Str(PublicPem(k))),
     createFingerprint(KeyObj("public", k))}

\* createDynamicQRDate has returned a url made by the built-in formatter.
DynamicBuiltIn ==
    /\ Returned("createDynamicQRDate") /\ Falsy(call.formatter)
    /\ out.error = ""

\* C25: no key material in a dynamic URL.  The url createDynamicQRDate
\* builds without a formatter has three query parameters, s, t and v, whose
\* values are the signature, the timestamp and the version; no text of the
\* public key and no fingerprint of it occurs in the url.
C25_NoKeyInDynamicUrl ==
    DynamicBuiltIn
    => /\ Len(SplitOn(QueryOf(out.url.text), "&")) = 3
       /\ ParamNames(out.url.text) = {<<"s">>, <<"t">>, <<"v">>}
       /\ SearchParam(out.url.text, <<"s">>) = out.signature
       /\ SearchParam(out.url.text, <<"t">>)
            = Str(NumToString(out.timestamp.num))
       /\ SearchParam(out.url.text, <<"v">>) = Str(<<"1">>)
       /\ \A part \in PublicKeyTexts(KeyIdOf(call.privateKey))
                      \cup FingerprintTexts(KeyIdOf(call.privateKey)) :
            ~Contains(out.url.text, part)

C25_Witness ==
    /\ DynamicBuiltIn /\ KeyIdOf(call.privateKey) = 1
    /\ "?" \in Range(call.urlBase.text)
    /\ ParamNames(out.url.text) = {<<"s">>, <<"t">>, <<"v">>}
    /\ ~Contains(out.url.text, ToBase64Url(SpkiDer(1)))
    /\ Contains(out.url.text, out.signature.text)

\* C26: static version consistency.  The query parameter v of the url
\* createStaticQRDate returns is the decimal text of the version field of
\* the object returned, which is 1, the version of the signed message.
C26_StaticVersionConsistent ==
    (Returned("createStaticQRDate") /\ out.error = "")
    => /\ out.version = Num(1)
       /\ out.signature
            = SignatureOf(NumToString(out.timestamp.num), <<"1">>,
                          KeyIdOf(call.privateKey))
       /\ SearchParam(out.url.text, <<"v">>)
            = Str(NumToString(out.version.num))

\* C27: dynamic version consistency.  For createDynamicQRDate without a
\* formatter, the version of the message that was signed, the query
\* parameter v of the url and the version field of the object returned are
\* the same value, 1.
C27_DynamicVersionConsistent ==
    DynamicBuiltIn
    => /\ out.version = Num(1)
       /\ SearchParam(out.url.text, <<"v">>)
            = Str(NumToString(out.version.num))
       /\ out.signature
            = SignatureOf(NumToString(out.timestamp.num),
                          NumToString(out.version.num),
                          KeyIdOf(call.privateKey))
       /\ out.signature
            # SignatureOf(NumToString(out.timestamp.num), <<"2">>,
                          KeyIdOf(call.privateKey))

C27_Witness ==
    /\ DynamicBuiltIn /\ out.version = Num(1)
    /\ SearchParam(out.url.text, <<"v">>) = Str(<<"1">>)
    /\ verify(out.timestamp, KeyObj("public", KeyIdOf(call.privateKey)),
              out.signature, out.version) = "true"

\* verifyQRDate was given the signature of the salted QR Date at hand and
\* the public key of the pair that signed it.
SaltedSignatureGiven ==
    /\ Returned("verifyQRDate") /\ qr.kind = "salted"
    /\ call.signature = qr.signature
    /\ qr.key # 0 /\ call.publicKey = Str(PublicPem(qr.key))
    /\ call.privateKey = Undefined

\* The timestamp and the salt given are those of the QR Date at hand, the
\* timestamp a number or its decimal text.
SignedPairGiven ==
    /\ call.timestamp \in TimestampForms(qr.timestamp)
    /\ call.salt = qr.salt

\* C28: salted mode binds the exact pair.  With the signature and the key
\* for which verifyQRDate returns true on the timestamp and the salt that
\* were signed, it does not return true on any other timestamp and salt;
\* in particular not when leading decimal digits of the salt are moved onto
\* the end of the timestamp.
C28_SaltedPairBound ==
    (SaltedSignatureGiven /\ verdict = "true") => SignedPairGiven

\* C29: every signable timestamp is verifiable.  For every non-negative
\* integer timestamp, 0 included, and every key pair, verifyDynamicQRDate
\* given the timestamp, the signature sign made of it under version 1 and
\* the public key of the pair returns true; it raises 'timestamp is
\* required' only when no timestamp is given.
C29_SignableIsVerifiable ==
    /\ (SignedByPair /\ call.timestamp.type = "number"
        /\ VersionText(call.version) = <<"1">>)
       => \A publicKey \in PublicKeyForms(KeyIdOf(call.privateKey)) :
            verifyDynamicQRDate(call.timestamp, out.signature, publicKey)
              = "true"
    /\ (Returned("verifyDynamicQRDate") /\ verdict = "timestamp is required")
       => call.timestamp = Undefined

\* The texts of the private key of pair k: PEM, the base64 and the
\* base64url text of its DER and of its seed.
PrivateKeyTexts(k) ==
    {PrivatePem(k), ToBase64(Pkcs8Der(k)), ToBase64Url(Pkcs8Der(k)),
     ToBase64(PrivateSeed(k)), ToBase64Url(PrivateSeed(k))}

\* A value is neither the private key of the call, in the form given or in
\* another, nor a text in which a text of that key occurs.
FreeOfPrivateKey(value) ==
    /\ value # call.privateKey
    /\ value \notin PrivateKeyForms(KeyIdOf(call.privateKey))
    /\ value.type \in {"string", "number"}
       => \A part \in PrivateKeyTexts(KeyIdOf(call.privateKey)) :
            ~Contains(ToText(value), part)

\* createDynamicQRDate or createStaticQRDate has returned an object.
Created ==
    /\ pc = "returned"
    /\ call.op \in {"createDynamicQRDate", "createStaticQRDate"}
    /\ out.error = ""

\* The fields of the object returned, and the fields of the object the
\* formatter of the call was given.
ReturnedFields ==
    {out.timestamp, out.url, out.signature, out.fingerprint, out.version}

FormatterFields ==
    {call.urlBase, out.timestamp, out.signature, out.version}

\* C30: the private key never leaves Create.  No field of the object
\* createDynamicQRDate or createStaticQRDate returns is the private key or
\* holds a text of it, and a formatter is given urlBase, timestamp,
\* signature and version, none of which is the private key or holds a text
\* of it.
C30_PrivateKeyStaysInside ==
    Created
    => /\ KeyIdOf(call.privateKey) # 0
       /\ \A field \in ReturnedFields : FreeOfPrivateKey(field)
       /\ ~Falsy(call.formatter)
          => /\ out.url.text
                  = ApplyFormatter(call.formatter, call.urlBase,
                                   out.timestamp, out.signature, out.version)
             /\ \A field \in FormatterFields : FreeOfPrivateKey(field)

C30_Witness ==
    /\ Created /\ call.op = "createDynamicQRDate"
    /\ call.formatter = EchoFunction
    /\ call.privateKey = Str(ToBase64Url(Pkcs8Der(1)))
    /\ SearchParam(out.url.text, <<"s">>) = out.signature
    /\ ~Contains(out.url.text, ToBase64Url(Pkcs8Der(1)))

=============================================================================
